---- MODULE Spec2Model ----
(***************************************************************************)
(* fronius-exporter: the device API client (api/api.go) and the metrics    *)
(* collector (main.go), as a state machine.  One scrape cycle is one call  *)
(* of collector.Collect; it is split at its network requests, each of      *)
(* which receives a response chosen by the environment.                    *)
(***************************************************************************)
EXTENDS Integers, Sequences, FiniteSets, TLC

VARIABLES
  pc,        \* position of the collector: idle, inventory, common, threephase, done, panic
  ids,       \* Collect's local ids: the device keys returned by collectInverters
  idx,       \* position of Collect's range loop over ids
  ch,        \* the metric channel of the running Collect: the records sent so far
  api,       \* collector.api: the client's base endpoint
  descs,     \* collector's metric descriptors
  last,      \* the latest client operation of this cycle: response, map order, outcome
  received,  \* what the client returned to the collector in this cycle, call by call
  prevFailed, \* whether the inventory fetch of the cycle before failed
  code,      \* input of the status decoder
  decoded    \* output of the status decoder ("" before it ran)

vars == <<pc, ids, idx, ch, api, descs, last, received, prevFailed, code, decoded>>

(***************************************************************************)
(* Bounds of the model.                                                    *)
(***************************************************************************)
\* the largest number of devices an inventory response lists
MaxDevices == 2
\* the status decoder is run on every integer of -CodeSpan .. CodeSpan
CodeSpan == 260

(***************************************************************************)
(* Status Decoder                                                          *)
(***************************************************************************)
StatusCodeStartup == "Startup"
StatusCodeRunning == "Running"
StatusCodeStandby == "Standby"
StatusCodeBootloading == "Bootloading"
StatusCodeError == "Error"
StatusCodeIdle == "Idle"
StatusCodeReady == "Ready"
StatusCodeSleeping == "Sleeping"
StatusCodeUnknown == "Unknown"
StatusCodeInvalid == "INVALID"

StatusCodes ==
  << StatusCodeStartup, StatusCodeRunning, StatusCodeStandby,
     StatusCodeBootloading, StatusCodeError, StatusCodeIdle,
     StatusCodeReady, StatusCodeSleeping, StatusCodeUnknown,
     StatusCodeInvalid >>

\* faulty variant: the lower bound of the Startup range is exclusive
StringStartupExclusive(i) ==
  IF i > 0 /\ i < 7 THEN StatusCodeStartup
  ELSE IF i = 7 THEN StatusCodeRunning
  ELSE IF i = 8 THEN StatusCodeStandby
  ELSE IF i = 9 THEN StatusCodeBootloading
  ELSE IF i = 10 THEN StatusCodeError
  ELSE IF i = 11 THEN StatusCodeIdle
  ELSE IF i = 12 THEN StatusCodeReady
  ELSE IF i = 13 THEN StatusCodeSleeping
  ELSE IF i = 255 THEN StatusCodeUnknown
  ELSE StatusCodeInvalid

\* faulty variant: the catch-all returns a name that is not the one StatusCodes lists
StringInvalidMixedCase(i) ==
  IF i >= 0 /\ i < 7 THEN StatusCodeStartup
  ELSE IF i = 7 THEN StatusCodeRunning
  ELSE IF i = 8 THEN StatusCodeStandby
  ELSE IF i = 9 THEN StatusCodeBootloading
  ELSE IF i = 10 THEN StatusCodeError
  ELSE IF i = 11 THEN StatusCodeIdle
  ELSE IF i = 12 THEN StatusCodeReady
  ELSE IF i = 13 THEN StatusCodeSleeping
  ELSE IF i = 255 THEN StatusCodeUnknown
  ELSE "Invalid"

\* StatusCode.String
String(i) ==
  IF i >= 0 /\ i < 7 THEN StatusCodeStartup
  ELSE IF i = 7 THEN StatusCodeRunning
  ELSE IF i = 8 THEN StatusCodeStandby
  ELSE IF i = 9 THEN StatusCodeBootloading
  ELSE IF i = 10 THEN StatusCodeError
  ELSE IF i = 11 THEN StatusCodeIdle
  ELSE IF i = 12 THEN StatusCodeReady
  ELSE IF i = 13 THEN StatusCodeSleeping
  ELSE IF i = 255 THEN StatusCodeUnknown
  ELSE StatusCodeInvalid

(***************************************************************************)
(* Errors and responses                                                    *)
(***************************************************************************)
\* http.StatusOK
StatusOK == 200

NoError == [kind |-> "none", code |-> 0, reason |-> "", msg |-> ""]
\* the error of http.Client.Do: transport failure, timeout, cancellation
NetworkError == [kind |-> "network", code |-> 0, reason |-> "", msg |-> ""]
\* fmt.Errorf("unexpected http status: %s", resp.Status)
HTTPStatusError(status) ==
  [kind |-> "http", code |-> status, reason |-> "", msg |-> ""]
\* an error of the JSON decoder, on the envelope or on the payload
DecodeError == [kind |-> "decode", code |-> 0, reason |-> "", msg |-> ""]

\* faulty variant: the reason is left out of the error
MsgErrorNoReason(m) ==
  IF m.code = 0 THEN NoError
  ELSE [kind |-> "protocol", code |-> m.code, reason |-> "", msg |-> m.msg]

\* Msg.Error: nil for Head.Status.Code 0, else an error of code, message, reason
MsgError(m) ==
  IF m.code = 0 THEN NoError
  ELSE [kind |-> "protocol", code |-> m.code, reason |-> m.reason, msg |-> m.msg]

(***************************************************************************)
(* What the device may answer.  A response is the outcome of               *)
(* http.Client.Do: a transport error, or an HTTP status with a body; the   *)
(* body is malformed or an envelope (Msg) of status and Data payload.      *)
(***************************************************************************)
\* the device keys of the samples, with the bytes Go compares them by
KeyBytes == ("1" :> <<49>>) @@ ("2" :> <<50>>) @@ ("10" :> <<49, 48>>)
DeviceKeys == DOMAIN KeyBytes

\* entries of the inventory payload: a JSON object per device, or null
DeviceSamples ==
  { [null |-> FALSE, Dt |-> 232, CustomName |-> <<"hearts">>,
     StatusCode |-> 7, UniqueID |-> "1234567"],
    [null |-> FALSE, Dt |-> 232, CustomName |-> <<"a", "&amp;", "b">>,
     StatusCode |-> 6, UniqueID |-> "1234567"],
    [null |-> FALSE, Dt |-> 99, CustomName |-> <<"hearts">>,
     StatusCode |-> 255, UniqueID |-> "7654321"],
    [null |-> FALSE, Dt |-> 99, CustomName |-> <<"a", "&amp;", "b">>,
     StatusCode |-> -1, UniqueID |-> "7654321"] }
\* raw status codes around every boundary of the decoder, for one-device inventories
StatusCodeSamples == ((0 - 1)..14) \cup {254, 255, 256}
NullDevice ==
  [null |-> TRUE, Dt |-> 0, CustomName |-> <<>>, StatusCode |-> 0, UniqueID |-> ""]

NoMeas == [TotalEnergy |-> 0, Udc |-> 0, Idc |-> 0, Fac |-> 0,
           UacL1 |-> 0, UacL2 |-> 0, UacL3 |-> 0,
           IacL1 |-> 0, IacL2 |-> 0, IacL3 |-> 0]
CommonSample == [NoMeas EXCEPT !.TotalEnergy = 234611600, !.Udc = 636,
                                !.Idc = 1, !.Fac = 50]
ThreePhaseSample == [NoMeas EXCEPT !.UacL1 = 236, !.UacL2 = 234, !.UacL3 = 237,
                                    !.IacL1 = 5, !.IacL2 = 7, !.IacL3 = 8]

\* msg.Body.Data, by the shape of its JSON
NoInv == [k \in {} |-> NullDevice]
BadPayload == [shape |-> "bad", inv |-> NoInv, meas |-> NoMeas]
InventoryPayloads ==
  { [shape |-> "inventory", inv |-> m, meas |-> NoMeas] :
      m \in UNION { [S -> DeviceSamples] :
                      S \in { T \in SUBSET DeviceKeys : Cardinality(T) <= MaxDevices } } }
  \cup { [shape |-> "inventory", meas |-> NoMeas,
           inv |-> ("1" :> [null |-> FALSE, Dt |-> 232, CustomName |-> <<"hearts">>,
                            StatusCode |-> c, UniqueID |-> "1234567"])] :
           c \in StatusCodeSamples }
  \cup { [shape |-> "inventory", inv |-> ("1" :> NullDevice), meas |-> NoMeas] }
CommonPayloads == { [shape |-> "common", inv |-> NoInv, meas |-> CommonSample] }
ThreePhasePayloads == { [shape |-> "threephase", inv |-> NoInv, meas |-> ThreePhaseSample] }

\* Head.Status of the envelope
StatusSamples ==
  { [code |-> 0, reason |-> "", msg |-> ""],
    [code |-> 8, reason |-> "r8", msg |-> "m8"],
    [code |-> -1, reason |-> "r", msg |-> ""] }
OkStatus == [code |-> 0, reason |-> "", msg |-> ""]
\* the envelope statuses of the bodies sent with an HTTP status other than 200
ErrorBodyStatuses == { st \in StatusSamples : st.code >= 0 }

Malformed == [wellformed |-> FALSE, status |-> OkStatus, data |-> BadPayload]
Envelope(st, d) == [wellformed |-> TRUE, status |-> st, data |-> d]

HTTPSamples == {StatusOK, 204, 500}

\* the responses to a request whose well-shaped payloads are `payloads`
Responses(payloads) ==
  { [transport |-> "error", status |-> 0, body |-> Malformed] }
  \cup { [transport |-> "ok", status |-> h, body |-> b] :
           h \in HTTPSamples \ {StatusOK},
           b \in {Malformed} \cup { Envelope(st, d) : st \in ErrorBodyStatuses, d \in payloads } }
  \cup { [transport |-> "ok", status |-> StatusOK, body |-> Malformed] }
  \cup { [transport |-> "ok", status |-> StatusOK, body |-> Envelope(st, d)] :
           st \in StatusSamples \ {OkStatus}, d \in payloads }
  \cup { [transport |-> "ok", status |-> StatusOK, body |-> Envelope(OkStatus, d)] :
           d \in payloads \cup {BadPayload} }

NoResponse == [transport |-> "none", status |-> 0, body |-> Malformed]

(***************************************************************************)
(* Device API Client                                                       *)
(***************************************************************************)
\* Go's < on strings: bytewise lexicographic
RECURSIVE BytesLess(_, _)
BytesLess(a, b) ==
  IF b = <<>> THEN FALSE
  ELSE IF a = <<>> THEN TRUE
  ELSE IF Head(a) # Head(b) THEN Head(a) < Head(b)
  ELSE BytesLess(Tail(a), Tail(b))

\* the less function of GetInverterInfo's sort.Slice
NameLess(x, y) == BytesLess(KeyBytes[x.Name], KeyBytes[y.Name])

RECURSIVE Insert(_, _)
Insert(x, s) ==
  IF s = <<>> THEN <<x>>
  ELSE IF NameLess(x, Head(s)) THEN <<x>> \o s
  ELSE <<Head(s)>> \o Insert(x, Tail(s))

\* faulty variant: the result is returned in the order the map was ranged over
SortSliceNone(s) == s

\* sort.Slice(result, by Name)
RECURSIVE SortSlice(_)
SortSlice(s) ==
  IF s = <<>> THEN <<>> ELSE Insert(Head(s), SortSlice(Tail(s)))

\* html.UnescapeString, on a string given as its text runs and character references
UnescapeToken(t) ==
  IF t = "&amp;" THEN "&" ELSE IF t = "&lt;" THEN "<" ELSE IF t = "&gt;" THEN ">" ELSE t
RECURSIVE UnescapeString(_)
UnescapeString(s) ==
  IF s = <<>> THEN "" ELSE UnescapeToken(Head(s)) \o UnescapeString(Tail(s))

\* the InverterInfo decoded for map key `name`, as the range loop leaves it
InverterInfo(name, d) ==
  [Name |-> name, CustomName |-> UnescapeString(d.CustomName), Dt |-> d.Dt,
   StatusCode |-> d.StatusCode, UniqueID |-> d.UniqueID]

\* the orders in which Go may range over a map of keys S
Orders(S) ==
  { o \in [1..Cardinality(S) -> S] : \A i, j \in DOMAIN o : o[i] = o[j] => i = j }

ClientResult(resp, closed, bodyRead, payloadDecoded, err, panicked, inverters, meas) ==
  [resp |-> resp, closed |-> closed, bodyRead |-> bodyRead,
   payloadDecoded |-> payloadDecoded, err |-> err, panicked |-> panicked,
   inverters |-> inverters, meas |-> meas]

\* Fronius.GetInverterInfo; `order` is the order in which the map is ranged over
GetInverterInfo(resp, order) ==
  IF resp.transport # "ok"
    THEN ClientResult(resp, FALSE, FALSE, FALSE, NetworkError, FALSE, <<>>, NoMeas)
  ELSE IF resp.status # StatusOK
    \* returns before the deferred Close is registered
    THEN ClientResult(resp, FALSE, FALSE, FALSE, HTTPStatusError(resp.status),
                      FALSE, <<>>, NoMeas)
  ELSE IF ~resp.body.wellformed
    THEN ClientResult(resp, TRUE, TRUE, FALSE, DecodeError, FALSE, <<>>, NoMeas)
  ELSE IF MsgError(resp.body.status) # NoError
    THEN ClientResult(resp, TRUE, TRUE, FALSE, MsgError(resp.body.status),
                      FALSE, <<>>, NoMeas)
  ELSE IF resp.body.data.shape # "inventory"
    THEN ClientResult(resp, TRUE, TRUE, TRUE, DecodeError, FALSE, <<>>, NoMeas)
  ELSE IF \E k \in DOMAIN resp.body.data.inv : resp.body.data.inv[k].null
    \* a null entry decodes to a nil *InverterInfo; inverter.Name = name panics
    THEN ClientResult(resp, TRUE, TRUE, TRUE, NoError, TRUE, <<>>, NoMeas)
  ELSE ClientResult(resp, TRUE, TRUE, TRUE, NoError, FALSE,
         SortSlice([i \in DOMAIN order |->
                      InverterInfo(order[i], resp.body.data.inv[order[i]])]),
         NoMeas)

\* faulty variant: the HTTP status is not looked at
GetRealtimeInverterRealtimeDataAnyStatus(resp) ==
  IF resp.transport # "ok"
    THEN ClientResult(resp, FALSE, FALSE, FALSE, NetworkError, FALSE, <<>>, NoMeas)
  ELSE IF ~resp.body.wellformed
    THEN ClientResult(resp, TRUE, TRUE, FALSE, DecodeError, FALSE, <<>>, NoMeas)
  ELSE ClientResult(resp, TRUE, TRUE, FALSE, MsgError(resp.body.status),
                    FALSE, <<>>, NoMeas)

\* Fronius.GetRealtimeInverterRealtimeData: the raw payload (resp.body.data) or an error
GetRealtimeInverterRealtimeData(resp) ==
  IF resp.transport # "ok"
    THEN ClientResult(resp, FALSE, FALSE, FALSE, NetworkError, FALSE, <<>>, NoMeas)
  ELSE IF resp.status # StatusOK
    THEN ClientResult(resp, TRUE, FALSE, FALSE, HTTPStatusError(resp.status),
                      FALSE, <<>>, NoMeas)
  ELSE IF ~resp.body.wellformed
    THEN ClientResult(resp, TRUE, TRUE, FALSE, DecodeError, FALSE, <<>>, NoMeas)
  ELSE ClientResult(resp, TRUE, TRUE, FALSE, MsgError(resp.body.status),
                    FALSE, <<>>, NoMeas)

\* the err check and json.Unmarshal of the raw payload into the data struct: JSON
\* that is no object fails; the struct's fields are read from an object
UnmarshalData(r) ==
  IF r.err # NoError THEN r
  ELSE IF r.resp.body.data.shape = "bad"
    THEN [r EXCEPT !.payloadDecoded = TRUE, !.err = DecodeError]
  ELSE [r EXCEPT !.payloadDecoded = TRUE, !.meas = r.resp.body.data.meas]

\* Fronius.GetInverterRealtimeCommonData
GetInverterRealtimeCommonData(resp) ==
  UnmarshalData(GetRealtimeInverterRealtimeData(resp))

\* Fronius.GetInverterRealtimeThreePhaseData
GetInverterRealtimeThreePhaseData(resp) ==
  UnmarshalData(GetRealtimeInverterRealtimeData(resp))

(***************************************************************************)
(* Metrics Collector                                                       *)
(***************************************************************************)
\* newFronius' base endpoint and newCollector's descriptors
BaseURL == "http://inverter/solar_api/v1"
Descs ==
  [inverterInfo |-> [fqName |-> "fronius_inverter_info",
                     labels |-> <<"device_id", "device_type", "device_name", "serial">>],
   inverterStatus |-> [fqName |-> "fronius_inverter_status",
                       labels |-> <<"device_id", "status">>],
   inverterTotalEnergy |-> [fqName |-> "inverter_yield_total", labels |-> <<"device_id">>],
   inverterDCVoltage |-> [fqName |-> "inverter_dc_voltage", labels |-> <<"device_id">>],
   inverterDCCurrent |-> [fqName |-> "inverter_dc_current", labels |-> <<"device_id">>],
   inverterACFrequency |-> [fqName |-> "inverter_grid_frequency", labels |-> <<"device_id">>],
   inverterACVoltage |-> [fqName |-> "inverter_grid_voltage",
                          labels |-> <<"device_id", "phase">>],
   inverterACCurrent |-> [fqName |-> "inverter_grid_current",
                          labels |-> <<"device_id", "phase">>]]

\* a float64 metric value, as a fraction
Value(num, den) == [num |-> num, den |-> den]

\* prometheus.NewConstMetric as the collector calls it: an error when the label
\* values are not as many as the descriptor's label names
NewConstMetric(desc, kind, value, labelValues) ==
  [err |-> Len(labelValues) # Len(desc.labels),
   m |-> [name |-> desc.fqName, kind |-> kind, value |-> value,
          labels |-> [i \in 1..Len(labelValues) |->
                        <<IF i <= Len(desc.labels) THEN desc.labels[i] ELSE "", labelValues[i]>>]]]

\* strings.ToLower on the status names
ToLower ==
  (StatusCodeStartup :> "startup") @@ (StatusCodeRunning :> "running")
  @@ (StatusCodeStandby :> "standby") @@ (StatusCodeBootloading :> "bootloading")
  @@ (StatusCodeError :> "error") @@ (StatusCodeIdle :> "idle")
  @@ (StatusCodeReady :> "ready") @@ (StatusCodeSleeping :> "sleeping")
  @@ (StatusCodeUnknown :> "unknown") @@ (StatusCodeInvalid :> "invalid")

\* the metrics of s up to the first NewConstMetric error (the handler returns there)
RECURSIVE UntilErr(_)
UntilErr(s) ==
  IF s = <<>> \/ Head(s).err THEN <<>> ELSE <<Head(s).m>> \o UntilErr(Tail(s))

\* the metrics of s without those NewConstMetric failed for (the loop continues)
RECURSIVE SkipErr(_)
SkipErr(s) ==
  IF s = <<>> THEN <<>>
  ELSE (IF Head(s).err THEN <<>> ELSE <<Head(s).m>>) \o SkipErr(Tail(s))

\* collectInverters' loop over api.StatusCodes() for one inverter
StatusMetrics(inverter) ==
  SkipErr([i \in DOMAIN StatusCodes |->
    NewConstMetric(descs.inverterStatus, "gauge",
                   IF String(inverter.StatusCode) = StatusCodes[i]
                     THEN Value(1, 1) ELSE Value(0, 1),
                   <<inverter.Name, ToLower[StatusCodes[i]]>>)])

\* the body of collectInverters' loop for one inverter: info, then status
InverterMetrics(inverter) ==
  LET m == NewConstMetric(descs.inverterInfo, "gauge", Value(1, 1),
                          <<inverter.Name, ToString(inverter.Dt),
                            inverter.CustomName, inverter.UniqueID>>)
  IN IF m.err THEN <<>> ELSE <<m.m>> \o StatusMetrics(inverter)

RECURSIVE Concat(_)
Concat(ss) == IF ss = <<>> THEN <<>> ELSE Head(ss) \o Concat(Tail(ss))

\* faulty variant: when the fetch fails, the ids of the scrape before are returned
collectInvertersStale(r) ==
  IF r.err # NoError THEN [ids |-> ids, out |-> <<>>]
  ELSE [ids |-> [i \in DOMAIN r.inverters |-> r.inverters[i].Name],
        out |-> Concat([i \in DOMAIN r.inverters |-> InverterMetrics(r.inverters[i])])]

\* collector.collectInverters on the result r of GetInverterInfo: the ids it
\* returns and the metrics it sends
collectInverters(r) ==
  IF r.err # NoError THEN [ids |-> <<>>, out |-> <<>>]
  ELSE [ids |-> [i \in DOMAIN r.inverters |-> r.inverters[i].Name],
        out |-> Concat([i \in DOMAIN r.inverters |-> InverterMetrics(r.inverters[i])])]

\* collector.collectCommonInverterData on the result r of GetInverterRealtimeCommonData
collectCommonInverterData(r, id) ==
  IF r.err # NoError THEN <<>>
  ELSE UntilErr(<<
    NewConstMetric(descs.inverterTotalEnergy, "counter",
                   Value(r.meas.TotalEnergy, 1000), <<id>>),
    NewConstMetric(descs.inverterDCVoltage, "gauge", Value(r.meas.Udc, 1), <<id>>),
    NewConstMetric(descs.inverterDCCurrent, "gauge", Value(r.meas.Idc, 1), <<id>>),
    NewConstMetric(descs.inverterACFrequency, "gauge", Value(r.meas.Fac, 1), <<id>>) >>)

\* faulty variant: the table's second row carries the first row's phase
ThreePhaseTableL1Twice(data) ==
  << [desc |-> descs.inverterACVoltage, data |-> data.UacL1, value |-> "L1"],
     [desc |-> descs.inverterACVoltage, data |-> data.UacL2, value |-> "L1"],
     [desc |-> descs.inverterACVoltage, data |-> data.UacL3, value |-> "L3"],
     [desc |-> descs.inverterACCurrent, data |-> data.IacL1, value |-> "L1"],
     [desc |-> descs.inverterACCurrent, data |-> data.IacL2, value |-> "L2"],
     [desc |-> descs.inverterACCurrent, data |-> data.IacL3, value |-> "L3"] >>

\* the table collectThreePhaseInverterData ranges over
ThreePhaseTable(data) ==
  << [desc |-> descs.inverterACVoltage, data |-> data.UacL1, value |-> "L1"],
     [desc |-> descs.inverterACVoltage, data |-> data.UacL2, value |-> "L2"],
     [desc |-> descs.inverterACVoltage, data |-> data.UacL3, value |-> "L3"],
     [desc |-> descs.inverterACCurrent, data |-> data.IacL1, value |-> "L1"],
     [desc |-> descs.inverterACCurrent, data |-> data.IacL2, value |-> "L2"],
     [desc |-> descs.inverterACCurrent, data |-> data.IacL3, value |-> "L3"] >>

\* collector.collectThreePhaseInverterData on the result r of
\* GetInverterRealtimeThreePhaseData
collectThreePhaseInverterData(r, id) ==
  IF r.err # NoError THEN <<>>
  ELSE LET t == ThreePhaseTable(r.meas)
       IN UntilErr([i \in DOMAIN t |->
            NewConstMetric(t[i].desc, "gauge", Value(t[i].data, 1), <<id, t[i].value>>)])

(***************************************************************************)
(* The scrape cycle                                                        *)
(***************************************************************************)
\* the record of a client operation and of what it returned to the collector
Call(op, id, order, r) ==
  [op |-> op, id |-> id, order |-> order, resp |-> r.resp, closed |-> r.closed, bodyRead |-> r.bodyRead,
   payloadDecoded |-> r.payloadDecoded, err |-> r.err, panicked |-> r.panicked,
   inverters |-> r.inverters, meas |-> r.meas]
NoCall ==
  Call("none", "", <<>>, ClientResult(NoResponse, FALSE, FALSE, FALSE, NoError, FALSE, <<>>, NoMeas))
Returned(op, id, r) ==
  [op |-> op, id |-> id, ok |-> r.err = NoError, inverters |-> r.inverters, meas |-> r.meas]

Init ==
  /\ pc = "idle"
  /\ ids = <<>>
  /\ idx = 1
  /\ ch = <<>>
  /\ api = BaseURL
  /\ descs = Descs
  /\ last = NoCall
  /\ received = <<>>
  /\ prevFailed = FALSE
  /\ code = 0
  /\ decoded = ""

\* faulty variant: the records of the scrape before are still in what this scrape sends
CollectKeepsRecords ==
  /\ pc \in {"idle", "done"}
  /\ pc' = "inventory"
  /\ ch' = ch
  /\ received' = <<>>
  /\ last' = NoCall
  /\ prevFailed' = (pc = "done" /\ ~received[1].ok)
  /\ UNCHANGED <<ids, idx, api, descs, code, decoded>>

\* the Sink calls Collect with a channel of its own for this scrape
Collect ==
  /\ pc \in {"idle", "done"}
  /\ pc' = "inventory"
  /\ ch' = <<>>
  /\ received' = <<>>
  /\ last' = NoCall
  /\ prevFailed' = (pc = "done" /\ ~received[1].ok)
  /\ UNCHANGED <<ids, idx, api, descs, code, decoded>>

\* ids := c.collectInverters(ch), and the loop's entry
CollectInverters ==
  /\ pc = "inventory"
  /\ \E resp \in Responses(InventoryPayloads) :
       \E order \in Orders(DOMAIN resp.body.data.inv) :
         LET r == GetInverterInfo(resp, order)
             c == collectInverters(r)
         IN /\ last' = Call("GetInverterInfo", "", order, r)
            /\ IF r.panicked
                 THEN /\ pc' = "panic"
                      /\ UNCHANGED <<ids, idx, ch, received>>
                 ELSE /\ ids' = c.ids
                      /\ idx' = 1
                      /\ ch' = ch \o c.out
                      /\ received' = Append(received, Returned("GetInverterInfo", "", r))
                      /\ pc' = IF c.ids = <<>> THEN "done" ELSE "common"
  /\ UNCHANGED <<api, descs, prevFailed, code, decoded>>

\* faulty variant: a failed common-data call ends the scrape
CollectCommonInverterDataAbort ==
  /\ pc = "common"
  /\ \E resp \in Responses(CommonPayloads) :
       LET r == GetInverterRealtimeCommonData(resp)
       IN /\ last' = Call("GetInverterRealtimeCommonData", ids[idx], <<>>, r)
          /\ ch' = ch \o collectCommonInverterData(r, ids[idx])
          /\ received' = Append(received, Returned("GetInverterRealtimeCommonData", ids[idx], r))
          /\ pc' = IF r.err # NoError THEN "done" ELSE "threephase"
  /\ UNCHANGED <<ids, idx, api, descs, prevFailed, code, decoded>>

\* c.collectCommonInverterData(ch, id)
CollectCommonInverterData ==
  /\ pc = "common"
  /\ \E resp \in Responses(CommonPayloads) :
       LET r == GetInverterRealtimeCommonData(resp)
       IN /\ last' = Call("GetInverterRealtimeCommonData", ids[idx], <<>>, r)
          /\ ch' = ch \o collectCommonInverterData(r, ids[idx])
          /\ received' = Append(received, Returned("GetInverterRealtimeCommonData", ids[idx], r))
  /\ pc' = "threephase"
  /\ UNCHANGED <<ids, idx, api, descs, prevFailed, code, decoded>>

\* c.collectThreePhaseInverterData(ch, id), and the loop's step
CollectThreePhaseInverterData ==
  /\ pc = "threephase"
  /\ \E resp \in Responses(ThreePhasePayloads) :
       LET r == GetInverterRealtimeThreePhaseData(resp)
       IN /\ last' = Call("GetInverterRealtimeThreePhaseData", ids[idx], <<>>, r)
          /\ ch' = ch \o collectThreePhaseInverterData(r, ids[idx])
          /\ received' = Append(received,
                                Returned("GetInverterRealtimeThreePhaseData", ids[idx], r))
  /\ idx' = idx + 1
  /\ pc' = IF idx = Len(ids) THEN "done" ELSE "common"
  /\ UNCHANGED <<ids, api, descs, prevFailed, code, decoded>>

Next ==
  \/ Collect
  \/ CollectInverters
  \/ CollectCommonInverterData
  \/ CollectThreePhaseInverterData

Spec == Init /\ [][Next]_vars

(***************************************************************************)
(* The status decoder alone, on every integer of the range                 *)
(***************************************************************************)
InitDecode ==
  /\ pc = "idle"
  /\ ids = <<>>
  /\ idx = 1
  /\ ch = <<>>
  /\ api = BaseURL
  /\ descs = Descs
  /\ last = NoCall
  /\ received = <<>>
  /\ prevFailed = FALSE
  /\ code \in (0 - CodeSpan)..CodeSpan
  /\ decoded = ""

Decode ==
  /\ decoded = ""
  /\ decoded' = String(code)
  /\ UNCHANGED <<pc, ids, idx, ch, api, descs, last, received, prevFailed, code>>

SpecDecode == InitDecode /\ [][Decode]_vars

(***************************************************************************)
(* Properties                                                              *)
(***************************************************************************)
\* the inventory fetch of this cycle returned without error
InventoryOk == received # <<>> /\ received[1].ok
\* the device_id label of a record: the first label of every descriptor
DeviceOf(m) == m.labels[1][2]
Identity(m) == [name |-> m.name, labels |-> m.labels]
Sent == { ch[i] : i \in DOMAIN ch }
CommonNames ==
  {"inverter_yield_total", "inverter_dc_voltage", "inverter_dc_current",
   "inverter_grid_frequency"}
ThreePhaseNames == {"inverter_grid_voltage", "inverter_grid_current"}
Phases == {"L1", "L2", "L3"}
SentFor(names, id) == { m \in Sent : m.name \in names /\ DeviceOf(m) = id }

\* the table of section 4.1
DecodeTable(c) ==
  CASE c \in 0..6 -> StatusCodeStartup
    [] c = 7 -> StatusCodeRunning
    [] c = 8 -> StatusCodeStandby
    [] c = 9 -> StatusCodeBootloading
    [] c = 10 -> StatusCodeError
    [] c = 11 -> StatusCodeIdle
    [] c = 12 -> StatusCodeReady
    [] c = 13 -> StatusCodeSleeping
    [] c = 255 -> StatusCodeUnknown
    [] OTHER -> StatusCodeInvalid

\* C1: when the inventory fetch succeeded, the finished scrape has made both detail
\* calls for every device, in order; each device has its info record and its status
\* records; a detail call that succeeded has all its records in the channel and one
\* that failed has none, whatever the other calls did.
C1_FailureIsolated ==
  (pc = "done" /\ InventoryOk) =>
    /\ Len(received) = 1 + 2 * Len(ids)
    /\ \A i \in DOMAIN ids :
         LET rc == received[2 * i]
             rt == received[2 * i + 1]
         IN /\ rc.op = "GetInverterRealtimeCommonData" /\ rc.id = ids[i]
            /\ rt.op = "GetInverterRealtimeThreePhaseData" /\ rt.id = ids[i]
            /\ Cardinality(SentFor({"fronius_inverter_info"}, ids[i])) = 1
            /\ Cardinality(SentFor({"fronius_inverter_status"}, ids[i])) = Len(StatusCodes)
            /\ IF rc.ok
                 THEN \A n \in CommonNames : SentFor({n}, ids[i]) # {}
                 ELSE SentFor(CommonNames, ids[i]) = {}
            /\ IF rt.ok
                 THEN \A n \in ThreePhaseNames : \A p \in Phases :
                        \E m \in SentFor({n}, ids[i]) : m.labels[2][2] = p
                 ELSE SentFor(ThreePhaseNames, ids[i]) = {}

\* a finished scrape of two devices: the first device's common-data call failed,
\* its three-phase call and both calls of the second device succeeded
C1_Witness ==
  /\ pc = "done" /\ InventoryOk /\ Len(ids) = 2
  /\ ~received[2].ok /\ received[3].ok /\ received[4].ok /\ received[5].ok

\* C2: a scrape whose inventory fetch failed is finished at once: nothing is in the
\* channel and no detail call was made.
C2_InventoryFailureEmitsNothing ==
  (received # <<>> /\ ~received[1].ok) =>
    /\ pc = "done"
    /\ ch = <<>>
    /\ Len(received) = 1
    /\ last.op = "GetInverterInfo"
    /\ last.err.kind \in {"network", "http", "decode", "protocol"}

\* the inventory fetch failed on the transport and the scrape is finished
C2_Witness ==
  /\ pc = "done" /\ received # <<>> /\ ~received[1].ok
  /\ last.err = NetworkError /\ ids = <<>>

\* C3: for every device of a fetched inventory the channel holds exactly ten status
\* records, one per entry of StatusCodes; the one of the decoded status has value 1
\* and the nine others value 0.
C3_TenStatusRecords ==
  InventoryOk =>
    \A i \in DOMAIN received[1].inverters :
      LET inv == received[1].inverters[i]
          S == { j \in DOMAIN ch : /\ ch[j].name = "fronius_inverter_status"
                                   /\ DeviceOf(ch[j]) = inv.Name }
      IN /\ Cardinality(S) = 10
         /\ \A k \in DOMAIN StatusCodes :
              Cardinality({ j \in S : ch[j].labels[2][2] = ToLower[StatusCodes[k]] }) = 1
         /\ Cardinality({ j \in S : ch[j].value = Value(1, 1) }) = 1
         /\ Cardinality({ j \in S : ch[j].value = Value(0, 1) }) = 9
         /\ \A j \in S : ch[j].value = Value(1, 1)
                           <=> ch[j].labels[2][2] = ToLower[DecodeTable(inv.StatusCode)]

\* a finished scrape of two devices, one with a status code of the catch-all and
\* one of the Startup range
C3_Witness ==
  /\ pc = "done" /\ InventoryOk
  /\ \E i, j \in DOMAIN received[1].inverters :
       /\ received[1].inverters[i].StatusCode = -1
       /\ received[1].inverters[j].StatusCode = 6

\* C4: the decoder's result is the table's, for every integer, and is exactly one
\* entry of StatusCodes.
C4_DecoderTable ==
  decoded # "" =>
    /\ decoded = DecodeTable(code)
    /\ Cardinality({ k \in DOMAIN StatusCodes : StatusCodes[k] = decoded }) = 1

\* the decoder ran on 256, next to the one code of Unknown
C4_Witness == code = 256 /\ decoded = StatusCodeInvalid

\* C5: a successful GetInverterInfo returns one record per key of the payload's
\* mapping, the record of a key carrying that key as Name and that entry's fields,
\* in strictly ascending order of the keys as Go compares strings, whatever the
\* order in which the map was ranged over.
C5_InventorySorted ==
  (last.op = "GetInverterInfo" /\ last.err = NoError /\ ~last.panicked) =>
    LET m == last.resp.body.data.inv
        res == last.inverters
    IN /\ Len(res) = Cardinality(DOMAIN m)
       /\ { res[i].Name : i \in DOMAIN res } = DOMAIN m
       /\ \A i \in DOMAIN res : res[i] = InverterInfo(res[i].Name, m[res[i].Name])
       /\ \A i, j \in DOMAIN res :
            i < j => BytesLess(KeyBytes[res[i].Name], KeyBytes[res[j].Name])

\* the map was ranged over as "2", "10" and the result is "10", "2"
C5_Witness ==
  /\ last.op = "GetInverterInfo" /\ last.err = NoError
  /\ last.order = <<"2", "10">>
  /\ Len(last.inverters) = 2
  /\ last.inverters[1].Name = "10" /\ last.inverters[2].Name = "2"

\* C6: when a client operation has parsed a well-formed envelope (the body of a 200
\* response), a status code other than 0 makes it return the protocol error of
\* exactly that code, reason and message, with the payload neither decoded nor
\* returned; code 0 gives no protocol error.
C6_ProtocolError ==
  (/\ last.op # "none" /\ last.resp.transport = "ok"
   /\ last.resp.status = StatusOK /\ last.resp.body.wellformed) =>
    LET st == last.resp.body.status
    IN IF st.code # 0
         THEN /\ last.err = [kind |-> "protocol", code |-> st.code,
                             reason |-> st.reason, msg |-> st.msg]
              /\ ~last.payloadDecoded
              /\ last.inverters = <<>> /\ last.meas = NoMeas
         ELSE last.err.kind # "protocol"

\* the three-phase operation parsed an envelope of status code 8 around a
\* well-shaped payload
C6_Witness ==
  /\ last.op = "GetInverterRealtimeThreePhaseData"
  /\ last.resp.status = StatusOK /\ last.resp.body.wellformed
  /\ last.resp.body.status.code = 8 /\ last.resp.body.data.shape = "threephase"

\* C7: a response whose HTTP status is not 200 (so every non-2xx status) makes the
\* operation return the HTTP status error, whatever its body, and the body is not
\* read: no envelope and no payload is decoded, nothing is returned.
C7_HTTPStatusError ==
  (last.op # "none" /\ last.resp.transport = "ok" /\ last.resp.status # StatusOK) =>
    /\ last.err = HTTPStatusError(last.resp.status)
    /\ ~last.bodyRead /\ ~last.payloadDecoded
    /\ last.inverters = <<>> /\ last.meas = NoMeas

\* the common-data operation got a 500 whose body is a well-formed envelope of
\* status 0 around a well-shaped payload
C7_Witness ==
  /\ last.op = "GetInverterRealtimeCommonData" /\ last.resp.transport = "ok"
  /\ last.resp.status = 500 /\ last.resp.body.wellformed
  /\ last.resp.body.status.code = 0 /\ last.resp.body.data.shape = "common"

\* C8: no two records of the channel have the same name and labels: the records
\* sent have as many identities as they are.
C8_UniqueIdentity ==
  Cardinality({ Identity(ch[i]) : i \in DOMAIN ch }) = Len(ch)

\* a finished scrape of two devices all of whose detail calls succeeded
C8_Witness ==
  /\ pc = "done" /\ Len(ids) = 2 /\ Len(received) = 5
  /\ \A i \in DOMAIN received : received[i].ok

\* the records section 4.4 derives from what the client returned in a cycle
ExpectedInfo(inv) ==
  [name |-> "fronius_inverter_info", kind |-> "gauge", value |-> Value(1, 1),
   labels |-> << <<"device_id", inv.Name>>, <<"device_type", ToString(inv.Dt)>>,
                 <<"device_name", inv.CustomName>>, <<"serial", inv.UniqueID>> >>]
ExpectedStatus(inv, k) ==
  [name |-> "fronius_inverter_status", kind |-> "gauge",
   value |-> IF DecodeTable(inv.StatusCode) = StatusCodes[k] THEN Value(1, 1) ELSE Value(0, 1),
   labels |-> << <<"device_id", inv.Name>>, <<"status", ToLower[StatusCodes[k]]>> >>]
ExpectedGauge(name, id, v) ==
  [name |-> name, kind |-> "gauge", value |-> Value(v, 1),
   labels |-> << <<"device_id", id>> >>]
ExpectedPhase(name, id, p, v) ==
  [name |-> name, kind |-> "gauge", value |-> Value(v, 1),
   labels |-> << <<"device_id", id>>, <<"phase", p>> >>]
ExpectedDetail(e) ==
  IF ~e.ok THEN {}
  ELSE IF e.op = "GetInverterRealtimeCommonData"
    THEN { [name |-> "inverter_yield_total", kind |-> "counter",
            value |-> Value(e.meas.TotalEnergy, 1000),
            labels |-> << <<"device_id", e.id>> >>],
           ExpectedGauge("inverter_dc_voltage", e.id, e.meas.Udc),
           ExpectedGauge("inverter_dc_current", e.id, e.meas.Idc),
           ExpectedGauge("inverter_grid_frequency", e.id, e.meas.Fac) }
  ELSE { ExpectedPhase("inverter_grid_voltage", e.id, "L1", e.meas.UacL1),
         ExpectedPhase("inverter_grid_voltage", e.id, "L2", e.meas.UacL2),
         ExpectedPhase("inverter_grid_voltage", e.id, "L3", e.meas.UacL3),
         ExpectedPhase("inverter_grid_current", e.id, "L1", e.meas.IacL1),
         ExpectedPhase("inverter_grid_current", e.id, "L2", e.meas.IacL2),
         ExpectedPhase("inverter_grid_current", e.id, "L3", e.meas.IacL3) }
ExpectedRecords(rec) ==
  IF rec = <<>> \/ ~rec[1].ok THEN {}
  ELSE UNION { {ExpectedInfo(rec[1].inverters[i])}
               \cup { ExpectedStatus(rec[1].inverters[i], k) : k \in DOMAIN StatusCodes } :
               i \in DOMAIN rec[1].inverters }
       \cup UNION { ExpectedDetail(rec[i]) : i \in 2..Len(rec) }

\* C9: the base endpoint and the descriptors never change, and the records of a
\* finished scrape are those derived from what the client returned in that scrape:
\* none after a failed inventory fetch, the full set otherwise, whatever the scrape
\* before was.
C9_NoStateAcrossCycles ==
  /\ api = BaseURL
  /\ descs = Descs
  /\ pc = "done" => Sent = ExpectedRecords(received)

\* a scrape that follows one whose inventory fetch failed has sent the full set of
\* two devices
C9_Witness ==
  /\ pc = "done" /\ prevFailed /\ Len(ids) = 2 /\ Len(received) = 5
  /\ \A i \in DOMAIN received : received[i].ok
  /\ Cardinality(Sent) = 42

\* C10: whenever the transport returned a response, its body is closed when the
\* operation returns.
C10_BodyClosed ==
  (last.op # "none" /\ last.resp.transport = "ok") => last.closed

====
